---- MODULE Spec2Model ----
(***************************************************************************)
(* Memory planner of torch/csrc/jit/passes/memory_planning.cpp:            *)
(* geometry primitives, the NAIVE strategy, the validator, the two entry   *)
(* points planMemory / planMemoryWithTracing and the replay of a memory    *)
(* event trace.                                                            *)
(*                                                                         *)
(* Containers.  A std::unordered_map is a function from its keys to their  *)
(* values; its iteration order is unspecified, so every loop over one      *)
(* draws an ordering of the keys, and Items gives the [key, value] records *)
(* in that order.  A std::map with comparator cmp is a sequence of         *)
(* [key, value] records sorted by cmp, holding no two keys equivalent      *)
(* under cmp.  A std::vector is a sequence.                                *)
(***************************************************************************)
EXTENDS Integers, Sequences, FiniteSets, TLC

VARIABLES
    pc,                      \* position of the running call
    strat,                   \* Strategy argument of the entry point
    graph,                   \* [nodes, outputs, inserted]: the jit graph
    liveness,                \* [always_alive, live_ranges, storage_size]: external analyses
    out_nodes,               \* std::vector<const Node*>
    managed_value_sizes,     \* unordered_map<const Value*, int64_t>
    managed_value_ranges,    \* unordered_map<const Value*, LiveRange>
    managed_live_ranges,     \* unordered_map<LiveRange, int64_t>
    allocations,             \* std::vector<MemAllocation>
    valid,                   \* outcome of validateAllocations: "none", "true", "false"
    total_size,              \* getTotalAllocationSize(allocations)
    allocs,                  \* unordered_map<std::string, MemEvent>: open Allocate events
    live_range_node_header,  \* std::vector<std::pair<LiveRange, FrameNodeId>>
    paired_sizes,            \* history: size of the Allocate behind each of its entries
    mem_event,               \* the event of the current loop iteration
    n_events,                \* number of events scanned so far
    intersect_in,            \* [a, b, c, d]: arguments of a call of intersectArea
    intersect_out            \* its return value

vars == << pc, strat, graph, liveness, out_nodes, managed_value_sizes,
           managed_value_ranges, managed_live_ranges, allocations, valid,
           total_size, allocs, live_range_node_header, paired_sizes, mem_event,
           n_events,
           intersect_in, intersect_out >>

static_vars == << out_nodes, managed_value_sizes, managed_value_ranges >>
trace_vars == << allocs, live_range_node_header, paired_sizes, mem_event, n_events >>
geom_vars == << intersect_in, intersect_out >>

----------------------------------------------------------------------------
(* Bounds of the model *)

\* width of the signed integers of the model (int64_t scaled down)
IntBits == 16
\* largest time stamp of a live range or of a trace event
MaxTime == 2
\* largest number of allocations handed to validateAllocations
MaxAllocs == 2
\* largest number of live ranges handed to a strategy on its own
MaxItems == 3
\* number of values of the graph on the static path
MaxValues == 2
\* largest number of events of a trace
MaxEvents == 3

----------------------------------------------------------------------------
(* Generic helpers *)

Max(a, b) == IF a >= b THEN a ELSE b
Min(a, b) == IF a <= b THEN a ELSE b

RECURSIVE Pow2(_)
Pow2(n) == IF n = 0 THEN 1 ELSE 2 * Pow2(n - 1)

Range(s) == { s[i] : i \in 1..Len(s) }

\* all sequences that enumerate the finite set S without repetition
Orderings(S) ==
    { f \in [1..Cardinality(S) -> S] : \A i, j \in 1..Cardinality(S) : i # j => f[i] # f[j] }

\* sequences over S of length at most n
SeqUpTo(S, n) == UNION { [1..k -> S] : k \in 0..n }

HasKey(m, k) == k \in DOMAIN m
At(m, k) == m[k]
Keys(m) == DOMAIN m

\* the elements of the unordered_map m as a loop in the order it visits them
Items(m, it) == [ i \in 1..Len(it) |-> [key |-> it[i], value |-> m[it[i]]] ]

\* unordered_map::operator[](k) = v : overwrite, or add a new element
UMapSet(m, k, v) == [ x \in (DOMAIN m) \cup {k} |-> IF x = k THEN v ELSE m[x] ]

\* unordered_map::insert({k, v}) : no effect when the key is present
UMapInsert(m, k, v) == IF HasKey(m, k) THEN m ELSE UMapSet(m, k, v)

\* unordered_map::erase(k)
UMapErase(m, k) == [ x \in (DOMAIN m) \ {k} |-> m[x] ]

----------------------------------------------------------------------------
(* Types *)

INT_MAX == Pow2(IntBits - 1) - 1
INT_MIN == 0 - Pow2(IntBits - 1)

\* two's complement wrap of x into INT_MIN..INT_MAX
Wrap(x) == ((x - INT_MIN) % Pow2(IntBits)) + INT_MIN

LiveRange(b, e) == [begin |-> b, end |-> e]
MemRegion(o, s) == [offset |-> o, size |-> s]
MemAllocation(l, r) == [lvr |-> l, reg |-> r]

\* value-initialised LiveRange / MemRegion (operator[] of a map on a missing key)
DefaultLiveRange == LiveRange(0, 0)
DefaultMemRegion == MemRegion(0, 0)

Strategies ==
    { "NAIVE", "LINEAR_SCAN", "GREEDY_BY_SIZE", "GREEDY_BY_SIZE_WITH_FIRST_GAP",
      "GREEDY_BY_LONGEST_AND_SIZE", "GREEDY_BY_BREADTH" }

\* a Strategy value that is none of the enumerators (static_cast of another integer)
StrategyArgs == Strategies \cup { "OUT_OF_ENUM" }

----------------------------------------------------------------------------
(* Geometry primitives *)

valid_add(a, b) ==
    ~ ( ((b > 0) /\ (a > INT_MAX - b)) \/ ((b < 0) /\ (a < INT_MIN - b)) )

valid_sub(a, b) ==
    ~ ( ((b < 0) /\ (a > INT_MAX + b)) \/ ((b > 0) /\ (a < INT_MIN + b)) )

\* the callers pass a <= b and c <= d (the two assertions of the function)
intersectArea(a, b, c, d) ==
    LET outer == Wrap(Max(b, d) - Min(a, c))
        l1 == Wrap(b - a)
        l2 == Wrap(d - c)
    IN  IF ~valid_add(l1, l2) THEN 0 - 1
        ELSE IF ~valid_sub(outer, l1 + l2) THEN 0 - 1
        ELSE IF outer - (l1 + l2) > 0 THEN 1
        ELSE 0

intersectLiveRange_strict(lvr1, lvr2) ==
    intersectArea(lvr1.begin, lvr1.end, lvr2.begin, lvr2.end) < 0

intersectLiveRange(lvr1, lvr2) ==
    intersectArea(lvr1.begin, lvr1.end, lvr2.begin, lvr2.end) <= 0

intersectMemRegion(reg1, reg2) ==
    intersectArea(reg1.offset, Wrap(reg1.offset + reg1.size),
                  reg2.offset, Wrap(reg2.offset + reg2.size)) < 0

intersectAllocs(m1, m2) ==
    intersectLiveRange(m1.lvr, m2.lvr) /\ intersectMemRegion(m1.reg, m2.reg)

\* false as soon as an ordered pair of unequal allocations intersects
validateAllocations(allocs_) ==
    ~ \E i, j \in 1..Len(allocs_) :
          /\ allocs_[i] # allocs_[j]
          /\ intersectAllocs(allocs_[i], allocs_[j])

RECURSIVE TotalFrom(_, _, _)
TotalFrom(allocs_, i, acc) ==
    IF i > Len(allocs_) THEN acc
    ELSE TotalFrom(allocs_, i + 1,
                   Max(acc, Wrap(allocs_[i].reg.offset + allocs_[i].reg.size)))

getTotalAllocationSize(allocs_) == TotalFrom(allocs_, 1, 0)

----------------------------------------------------------------------------
(* Alignment and ordering of live ranges (runtime/static/impl.h) *)

c10_gAlignment == 64

computeAlignedTensorSize(nbytes) ==
    ((nbytes + c10_gAlignment - 1) \div c10_gAlignment) * c10_gAlignment

live_range_start_cmp(range1, range2) ==
    \/ range1.begin < range2.begin
    \/ (range1.begin = range2.begin /\ range1.end < range2.end)

\* equivalence of two keys of a std::map ordered by live_range_start_cmp
EquivKeys(k1, k2) == ~live_range_start_cmp(k1, k2) /\ ~live_range_start_cmp(k2, k1)

\* std::map::insert({k, v}): ignored when an equivalent key is present, else
\* placed before the first element that k precedes
RECURSIVE SortedInsertAt(_, _, _)
SortedInsertAt(m, e, i) ==
    IF i > Len(m) THEN Append(m, e)
    ELSE IF live_range_start_cmp(e.key, m[i].key)
         THEN SubSeq(m, 1, i - 1) \o << e >> \o SubSeq(m, i, Len(m))
         ELSE SortedInsertAt(m, e, i + 1)

SortedMapInsert(m, k, v) ==
    IF \E i \in 1..Len(m) : EquivKeys(m[i].key, k) THEN m
    ELSE SortedInsertAt(m, [key |-> k, value |-> v], 1)

\* std::map(first, last): insert the elements in iteration order
RECURSIVE SortedMapFrom(_, _, _)
SortedMapFrom(items, i, m) ==
    IF i > Len(items) THEN m
    ELSE SortedMapFrom(items, i + 1, SortedMapInsert(m, items[i].key, items[i].value))

----------------------------------------------------------------------------
(* NAIVE *)

RECURSIVE NaiveLoop(_, _, _, _)
NaiveLoop(sorted, i, offset, acc) ==
    IF i > Len(sorted) THEN acc
    ELSE LET aligned_size == computeAlignedTensorSize(sorted[i].value)
         IN  NaiveLoop(sorted, i + 1, Wrap(offset + aligned_size),
                       Append(acc, MemAllocation(sorted[i].key,
                                                 MemRegion(offset, aligned_size))))

\* offset += aligned_size forgotten
RECURSIVE NaiveLoop_noAdvance(_, _, _, _)
NaiveLoop_noAdvance(sorted, i, offset, acc) ==
    IF i > Len(sorted) THEN acc
    ELSE LET aligned_size == computeAlignedTensorSize(sorted[i].value)
         IN  NaiveLoop_noAdvance(sorted, i + 1, offset,
                       Append(acc, MemAllocation(sorted[i].key,
                                                 MemRegion(offset, aligned_size))))

naive_noAdvance(managed) ==
    NaiveLoop_noAdvance(SortedMapFrom(managed, 1, << >>), 1, 0, << >>)

\* the raw size is used where the aligned size belongs
RECURSIVE NaiveLoop_unaligned(_, _, _, _)
NaiveLoop_unaligned(sorted, i, offset, acc) ==
    IF i > Len(sorted) THEN acc
    ELSE NaiveLoop_unaligned(sorted, i + 1, Wrap(offset + sorted[i].value),
                       Append(acc, MemAllocation(sorted[i].key,
                                                 MemRegion(offset, sorted[i].value))))

naive_unaligned(managed) ==
    NaiveLoop_unaligned(SortedMapFrom(managed, 1, << >>), 1, 0, << >>)

\* the loop stops one item early
naive_dropLast(managed) ==
    LET sorted == SortedMapFrom(managed, 1, << >>)
    IN  NaiveLoop(SubSeq(sorted, 1, Len(sorted) - 1), 1, 0, << >>)

naive(managed) ==
    NaiveLoop(SortedMapFrom(managed, 1, << >>), 1, 0, << >>)

----------------------------------------------------------------------------
(* The packing heuristics other than NAIVE (memory_planning/linear_scan,    *)
(* greedy_by_size, greedy_by_breadth), after sections 4.D.2 to 4.D.6 of the *)
(* design: an order of the items and the lowest free offset for each        *)

\* the sequence that enumerates the set S by ascending rank (rank: S -> Int, injective)
SortedByRank(S, rank) ==
    CHOOSE f \in Orderings(S) : \A i, j \in 1..Cardinality(S) : i < j => rank[f[i]] <= rank[f[j]]

\* one more than the largest size among the items
SizeTop(S) == 1 + (CHOOSE n \in {0} \cup { x.value : x \in S } :
                       \A x \in S : x.value <= n)

\* the two ranges have more than a single endpoint in common
ConflictInTime(l1, l2) ==
    /\ Max(l1.begin, l2.begin) <= Min(l1.end, l2.end)
    /\ (l1 = l2 \/ (l1.end # l2.begin /\ l2.end # l1.begin))

\* an item is still active when the scan reaches the begin of the other
ActiveInScan(l1, l2) == Max(l1.begin, l2.begin) <= Min(l1.end, l2.end)

\* the two regions have more than a single point in common
ConflictInSpace(r1, r2) ==
    Max(r1.offset, r2.offset) < Min(r1.offset + r1.size, r2.offset + r2.size)

\* lowest offset at which a region of `size` avoids every region of `busy`
LowestFreeOffset(busy, size) ==
    LET candidates == {0} \cup { r.offset + r.size : r \in busy }
        free == { o \in candidates :
                      \A r \in busy : ~ConflictInSpace(r, MemRegion(o, size)) }
    IN  CHOOSE o \in free : \A o2 \in free : o <= o2

\* place the items in the given order; scan tells which notion of time conflict
RECURSIVE PlaceInOrder(_, _, _, _)
PlaceInOrder(order, i, scan, placed) ==
    IF i > Len(order) THEN placed
    ELSE LET lvr == order[i].key
             size == computeAlignedTensorSize(order[i].value)
             busy == { placed[j].reg : j \in
                         { n \in 1..Len(placed) :
                               IF scan THEN ActiveInScan(placed[n].lvr, lvr)
                               ELSE ConflictInTime(placed[n].lvr, lvr) } }
             reg == MemRegion(LowestFreeOffset(busy, size), size)
         IN  PlaceInOrder(order, i + 1, scan, Append(placed, MemAllocation(lvr, reg)))

\* begin ascending, then end ascending
BeginRank(x) == x.key.begin * (MaxTime + 1) + x.key.end

\* size descending, then begin, then end
SizeRank(x) == (0 - x.value) * (MaxTime + 1) * (MaxTime + 1) + BeginRank(x)

\* length of the live range descending, then size descending, then begin
LongestRank(x, top) ==
    (0 - (x.key.end - x.key.begin)) * top * (MaxTime + 1) * (MaxTime + 1) + SizeRank(x)

linearScanHeuristic(managed) ==
    LET S == Range(managed)
    IN  PlaceInOrder(SortedByRank(S, [ x \in S |-> BeginRank(x) ]), 1, TRUE, << >>)

greedyBySize(managed) ==
    LET S == Range(managed)
    IN  PlaceInOrder(SortedByRank(S, [ x \in S |-> SizeRank(x) ]), 1, FALSE, << >>)

greedyBySizeWithFirstGap(managed) ==
    LET S == Range(managed)
    IN  PlaceInOrder(SortedByRank(S, [ x \in S |-> SizeRank(x) ]), 1, FALSE, << >>)

greedyBySizeAndLongestWithFirstGap(managed) ==
    LET S == Range(managed)
    IN  PlaceInOrder(SortedByRank(S, [ x \in S |-> LongestRank(x, SizeTop(S)) ]),
                     1, FALSE, << >>)

\* breadth of an out node: sizes of the managed values live when it runs (the
\* begin of its outputs' ranges)
NodeTime(ranges, node) ==
    LET outs == { node.outputs[i] : i \in 1..Len(node.outputs) } \cap DOMAIN ranges
    IN  IF outs = {} THEN 0
        ELSE (CHOOSE r \in { ranges[v] : v \in outs } :
                  \A v \in outs : r.begin <= ranges[v].begin).begin

RECURSIVE SumSizes(_, _)
SumSizes(sizes, S) ==
    IF S = {} THEN 0
    ELSE LET v == CHOOSE x \in S : TRUE
         IN  sizes[v] + SumSizes(sizes, S \ {v})

Breadth(sizes, ranges, node) ==
    LET t == NodeTime(ranges, node)
    IN  SumSizes(sizes, { v \in (DOMAIN sizes) \cap (DOMAIN ranges) :
                              ranges[v].begin <= t /\ t <= ranges[v].end })

\* the managed values in the order of the breadth heuristic: nodes by breadth
\* descending, the outputs of a node by size descending
BreadthOrder(sizes, ranges, ops) ==
    LET vals == (DOMAIN sizes) \cap (DOMAIN ranges)
        top == SizeTop({ [value |-> sizes[v]] : v \in vals })
        nvals == 1 + Cardinality(vals) + MaxValues
        NodeIdx(v) == CHOOSE n \in 1..Len(ops) :
                          \E i \in 1..Len(ops[n].outputs) : ops[n].outputs[i] = v
        rank == [ v \in vals |->
                      (0 - Breadth(sizes, ranges, ops[NodeIdx(v)]))
                              * (Len(ops) + 1) * (top + 1) * nvals
                          + NodeIdx(v) * (top + 1) * nvals
                          + (top - sizes[v]) * nvals
                          + v ]
        order == SortedByRank(vals, rank)
    IN  [ i \in 1..Len(order) |-> [key |-> ranges[order[i]], value |-> sizes[order[i]]] ]

greedyByOperatorBreadth(sizes, ranges, ops) ==
    PlaceInOrder(BreadthOrder(sizes, ranges, ops), 1, FALSE, << >>)

----------------------------------------------------------------------------
(* Input domains *)

LiveRanges == { LiveRange(b, e) : b \in 0..MaxTime, e \in 0..MaxTime } \cap
              { r \in [begin : 0..MaxTime, end : 0..MaxTime] : r.begin <= r.end }

\* byte sizes of tensors before alignment
InputSizes == { 40, 100 }

\* regions of a hand-written plan
RegionOffsets == { 0, 64 }
RegionSizes == { 64, 128 }

AllocationInputs ==
    { MemAllocation(l, MemRegion(o, s)) :
          l \in LiveRanges, o \in RegionOffsets, s \in RegionSizes }

\* unordered_map<LiveRange, int64_t> with at most n elements
ManagedInputs(n) ==
    UNION { [S -> InputSizes] : S \in { T \in SUBSET LiveRanges : Cardinality(T) <= n } }

EmptyGraph == [ nodes |-> << >>, outputs |-> {}, inserted |-> << >> ]
NoLiveness == [always_alive |-> {}, live_ranges |-> << >>, storage_size |-> << >>]
NoIntervals == [ a |-> 0, b |-> 0, c |-> 0, d |-> 0 ]
NoFrame == [ has_value |-> FALSE, node |-> 0 ]
NoEvent == [ time |-> 0, ptr_addr |-> "", size |-> 0, type |-> "none", frame_node_id |-> NoFrame ]

\* everything a call has not touched yet
Idle ==
    /\ strat = "NAIVE"
    /\ graph = EmptyGraph
    /\ liveness = NoLiveness
    /\ out_nodes = << >>
    /\ managed_value_sizes = << >>
    /\ managed_value_ranges = << >>
    /\ valid = "none"
    /\ total_size = 0
    /\ allocs = << >>
    /\ live_range_node_header = << >>
    /\ paired_sizes = << >>
    /\ mem_event = NoEvent
    /\ n_events = 0
    /\ intersect_in = NoIntervals
    /\ intersect_out = 0

----------------------------------------------------------------------------
(* validateAllocations applied to an arbitrary allocation set *)

InitValidate ==
    /\ Idle
    /\ pc = "validate_entry"
    /\ managed_live_ranges = << >>
    /\ allocations \in SeqUpTo(AllocationInputs, MaxAllocs)

ValidateCall ==
    /\ pc = "validate_entry"
    /\ valid' = IF validateAllocations(allocations) THEN "true" ELSE "false"
    /\ pc' = "validate_done"
    /\ UNCHANGED << strat, graph, liveness, managed_live_ranges, allocations,
                    total_size, static_vars, trace_vars, geom_vars >>

NextValidate == ValidateCall

SpecValidate == InitValidate /\ [][NextValidate]_vars

----------------------------------------------------------------------------
(* The NAIVE strategy applied to an arbitrary input map, followed by the    *)
(* validation and the total size as planMemory computes them                *)

InitNaive ==
    /\ Idle
    /\ pc = "naive_entry"
    /\ managed_live_ranges \in ManagedInputs(MaxItems)
    /\ allocations = << >>

NaiveCall ==
    /\ pc = "naive_entry"
    /\ \E it \in Orderings(Keys(managed_live_ranges)) :
           allocations' = naive(Items(managed_live_ranges, it))
    /\ valid' = IF validateAllocations(allocations') THEN "true" ELSE "false"
    /\ total_size' = getTotalAllocationSize(allocations')
    /\ pc' = "naive_done"
    /\ UNCHANGED << strat, graph, liveness, managed_live_ranges,
                    static_vars, trace_vars, geom_vars >>

NextNaive == NaiveCall

SpecNaive == InitNaive /\ [][NextNaive]_vars

----------------------------------------------------------------------------
(* Liveness extraction *)

NodeOutputs(node) == { node.outputs[i] : i \in 1..Len(node.outputs) }

\* Value::node(): index of the node that produces value v
NodeOf(g, v) == CHOOSE n \in 1..Len(g.nodes) : v \in NodeOutputs(g.nodes[n])

\* out_nodes: the nodes with an out variant, in schedule order
RECURSIVE OutNodesFrom(_, _)
OutNodesFrom(g, n) ==
    IF n > Len(g.nodes) THEN << >>
    ELSE (IF g.nodes[n].has_out_variant THEN << g.nodes[n] >> ELSE << >>)
             \o OutNodesFrom(g, n + 1)

\* the loop over node->outputs() without the test size.value() > 0
RECURSIVE VisitOutputs_anySize(_, _, _, _)
VisitOutputs_anySize(outs, j, lv, acc) ==
    IF j > Len(outs) THEN acc
    ELSE LET out_v == outs[j]
             size == lv.storage_size[out_v]
         IN  IF out_v \in lv.always_alive
             THEN VisitOutputs_anySize(outs, j + 1, lv, acc)
             ELSE IF size.has_value
             THEN VisitOutputs_anySize(outs, j + 1, lv,
                      [acc EXCEPT !.managed = UMapInsert(@, out_v, size.value)])
             ELSE VisitOutputs_anySize(outs, j + 1, lv,
                      [acc EXCEPT !.leaked = @ \cup {out_v}])

\* the loop over node->outputs(): an always-alive output is skipped, an
\* output with a known positive size is managed, any other is leaked (the
\* two leaking branches differ only in the warning)
RECURSIVE VisitOutputs(_, _, _, _)
VisitOutputs(outs, j, lv, acc) ==
    IF j > Len(outs) THEN acc
    ELSE LET out_v == outs[j]
             size == lv.storage_size[out_v]
         IN  IF out_v \in lv.always_alive
             THEN VisitOutputs(outs, j + 1, lv, acc)
             ELSE IF size.has_value /\ size.value > 0
             THEN VisitOutputs(outs, j + 1, lv,
                      [acc EXCEPT !.managed = UMapInsert(@, out_v, size.value)])
             ELSE VisitOutputs(outs, j + 1, lv,
                      [acc EXCEPT !.leaked = @ \cup {out_v}])

\* the loop over graph->nodes(): a node without an out variant is passed over
RECURSIVE VisitNodes(_, _, _, _)
VisitNodes(g, n, lv, acc) ==
    IF n > Len(g.nodes) THEN acc
    ELSE IF ~g.nodes[n].has_out_variant THEN VisitNodes(g, n + 1, lv, acc)
    ELSE VisitNodes(g, n + 1, lv, VisitOutputs(g.nodes[n].outputs, 1, lv, acc))

\* out_nodes, managed_tensor_values and the leaked values
getManagedValues(g, lv) ==
    LET r == VisitNodes(g, 1, lv, [ managed |-> << >>, leaked |-> {} ])
    IN  [ out_nodes |-> OutNodesFrom(g, 1),
          managed_tensor_values |-> r.managed,
          leaked_values |-> r.leaked ]

\* managed_ranges: the live ranges of the managed values that have one
getManagedStuff(g, lv) ==
    LET mv == getManagedValues(g, lv)
        sizes == mv.managed_tensor_values
    IN  [ out_nodes |-> mv.out_nodes,
          managed_tensor_values |-> sizes,
          managed_ranges |-> [ v \in (DOMAIN lv.live_ranges) \cap (DOMAIN sizes)
                                   |-> lv.live_ranges[v] ] ]

\* managed_live_ranges[managed_value_ranges[item.first]] = item.second for the
\* values in the order `it`; operator[] adds a missing value with LiveRange{}
RECURSIVE RangeSizesLoop(_, _, _, _, _)
RangeSizesLoop(sizes, it, i, mvr, mlr) ==
    IF i > Len(it) THEN [ managed_value_ranges |-> mvr, managed_live_ranges |-> mlr ]
    ELSE LET v == it[i]
             mvr1 == IF HasKey(mvr, v) THEN mvr ELSE UMapSet(mvr, v, DefaultLiveRange)
         IN  RangeSizesLoop(sizes, it, i + 1, mvr1, UMapSet(mlr, mvr1[v], sizes[v]))

----------------------------------------------------------------------------
(* Strategy dispatch of the two entry points *)

PlanMemoryHandles(s) == s \in Strategies

TracingHandles_all(s) == s \in Strategies

TracingHandles(s) == s \in { "NAIVE", "LINEAR_SCAN", "GREEDY_BY_SIZE" }

\* the switch on strat; items is managed_live_ranges as the strategy iterates it
RunStrategy(s, items, sizes, ranges, ops) ==
    CASE s = "NAIVE" -> naive(items)
      [] s = "LINEAR_SCAN" -> linearScanHeuristic(items)
      [] s = "GREEDY_BY_SIZE" -> greedyBySize(items)
      [] s = "GREEDY_BY_SIZE_WITH_FIRST_GAP" -> greedyBySizeWithFirstGap(items)
      [] s = "GREEDY_BY_LONGEST_AND_SIZE" -> greedyBySizeAndLongestWithFirstGap(items)
      [] s = "GREEDY_BY_BREADTH" -> greedyByOperatorBreadth(sizes, ranges, ops)
      [] OTHER -> << >>

----------------------------------------------------------------------------
(* Graph rewriting *)

\* allocations_map[item.lvr] = item.reg for the allocations in order
RECURSIVE AllocationsMap(_, _, _)
AllocationsMap(allocs_, i, m) ==
    IF i > Len(allocs_) THEN m
    ELSE AllocationsMap(allocs_, i + 1, UMapSet(m, allocs_[i].lvr, allocs_[i].reg))

\* allocations_map[lvr]: a missing key yields MemRegion{}
RegionOf(amap, lvr) == IF HasKey(amap, lvr) THEN amap[lvr] ELSE DefaultMemRegion

insertAllocStorageNode(g, total) ==
    [ g EXCEPT !.inserted =
          Append(@, [kind |-> "AllocateStorage", total_size |-> total, before |-> 1]) ]

AddInput(g, n) ==
    [ g EXCEPT !.nodes[n].added_inputs = @ + 1 ]

\* one AllocateTensor per element of managed_range_values; the TORCH_CHECK
\* throws after the node was created and inserted, before its attributes are set
RECURSIVE insertAllocTensorNodes(_, _, _, _, _)
insertAllocTensorNodes(g, total, amap, mrv, i) ==
    IF i > Len(mrv) THEN [ graph |-> g, ok |-> TRUE ]
    ELSE LET lvr == mrv[i].key
             v == mrv[i].value
             region == RegionOf(amap, lvr)
             n == NodeOf(g, v)
             fits == region.offset + region.size <= total
             alloc == [ kind |-> "AllocateTensor", before |-> n, value |-> v,
                        size |-> IF fits THEN region.size ELSE 0,
                        offset |-> IF fits THEN region.offset ELSE 0,
                        has_attrs |-> fits ]
             g1 == [ AddInput(g, n) EXCEPT !.inserted = Append(@, alloc) ]
         IN  IF fits THEN insertAllocTensorNodes(g1, total, amap, mrv, i + 1)
             ELSE [ graph |-> g1, ok |-> FALSE ]

\* managed_range_values.insert({range, value}) for the values in the order `it`
RECURSIVE RangeValuesFrom(_, _, _, _)
RangeValuesFrom(mvr, it, i, m) ==
    IF i > Len(it) THEN m
    ELSE RangeValuesFrom(mvr, it, i + 1, SortedMapInsert(m, mvr[it[i]], it[i]))

----------------------------------------------------------------------------
(* planMemory *)

\* the values of the graph, each the single output of a node with an out
\* variant; the liveness pass may have no range for a value
StaticNodes ==
    [ v \in 1..MaxValues |-> [ has_out_variant |-> TRUE, outputs |-> << v >>,
                               added_inputs |-> 0 ] ]

KnownSizes == [ has_value : {TRUE}, value : InputSizes ]

PartialRanges == UNION { [S -> LiveRanges] : S \in SUBSET (1..MaxValues) }

\* values are interchangeable: one representative of each permutation class
RangeCode(lr, v) ==
    IF v \in DOMAIN lr THEN 1 + lr[v].begin * (MaxTime + 1) + lr[v].end ELSE 0

ValueCode(lv, v) ==
    lv.storage_size[v].value * ((MaxTime + 1) * (MaxTime + 1) + 1) + RangeCode(lv.live_ranges, v)

InitStatic ==
    /\ pc = "pm_entry"
    /\ strat = "NAIVE"
    /\ graph = [ nodes |-> StaticNodes, outputs |-> {}, inserted |-> << >> ]
    /\ liveness \in [ always_alive : {{}}, live_ranges : PartialRanges,
                      storage_size : [1..MaxValues -> KnownSizes] ]
    /\ \A v \in 1..(MaxValues - 1) : ValueCode(liveness, v) <= ValueCode(liveness, v + 1)
    /\ out_nodes = << >>
    /\ managed_value_sizes = << >>
    /\ managed_value_ranges = << >>
    /\ managed_live_ranges = << >>
    /\ allocations = << >>
    /\ valid = "none"
    /\ total_size = 0
    /\ allocs = << >>
    /\ live_range_node_header = << >>
    /\ paired_sizes = << >>
    /\ mem_event = NoEvent
    /\ n_events = 0
    /\ intersect_in = NoIntervals
    /\ intersect_out = 0

\* getManagedStuff and the loop that keys the sizes by live range
PlanMemoryEnter ==
    /\ pc = "pm_entry"
    /\ LET stuff == getManagedStuff(graph, liveness)
       IN  /\ out_nodes' = stuff.out_nodes
           /\ managed_value_sizes' = stuff.managed_tensor_values
           /\ \E it \in Orderings(DOMAIN stuff.managed_tensor_values) :
                  LET r == RangeSizesLoop(stuff.managed_tensor_values, it, 1,
                                          stuff.managed_ranges, << >>)
                  IN  /\ managed_value_ranges' = r.managed_value_ranges
                      /\ managed_live_ranges' = r.managed_live_ranges
    /\ pc' = "pm_dispatch"
    /\ UNCHANGED << strat, graph, liveness, allocations, valid, total_size, trace_vars, geom_vars >>

\* the switch on the strategy; an unhandled strategy returns
PlanMemoryDispatch ==
    /\ pc = "pm_dispatch"
    /\ \E s \in StrategyArgs :
           /\ strat' = s
           /\ IF PlanMemoryHandles(s)
              THEN /\ \E it \in Orderings(Keys(managed_live_ranges)) :
                          allocations' = RunStrategy(s, Items(managed_live_ranges, it),
                                                     managed_value_sizes,
                                                     managed_value_ranges, out_nodes)
                   /\ pc' = "pm_validate"
              ELSE /\ allocations' = allocations
                   /\ pc' = "pm_returned"
    /\ UNCHANGED << graph, liveness, managed_live_ranges, valid, total_size,
                    static_vars, trace_vars, geom_vars >>

\* TORCH_INTERNAL_ASSERT(validateAllocations(allocations))
PlanMemoryValidate ==
    /\ pc = "pm_validate"
    /\ LET ok == validateAllocations(allocations)
       IN  /\ valid' = IF ok THEN "true" ELSE "false"
           /\ pc' = IF ok THEN "pm_insert" ELSE "abort_574"
    /\ UNCHANGED << strat, graph, liveness, managed_live_ranges, allocations,
                    total_size, static_vars, trace_vars, geom_vars >>

\* total size, managed_range_values, the storage node and the tensor nodes
PlanMemoryInsert ==
    /\ pc = "pm_insert"
    /\ total_size' = getTotalAllocationSize(allocations)
    /\ \E it \in Orderings(DOMAIN managed_value_ranges) :
           LET mrv == RangeValuesFrom(managed_value_ranges, it, 1, << >>)
               g1 == insertAllocStorageNode(graph, total_size')
               r == insertAllocTensorNodes(g1, total_size',
                                           AllocationsMap(allocations, 1, << >>), mrv, 1)
           IN  /\ graph' = r.graph
               /\ pc' = IF r.ok THEN "pm_done" ELSE "abort_197"
    /\ UNCHANGED << strat, liveness, managed_live_ranges, allocations, valid,
                    static_vars, trace_vars, geom_vars >>

----------------------------------------------------------------------------
(* Replay of a memory event trace *)

AbortSites ==
    { "abort_197", "abort_426", "abort_429", "abort_439", "abort_441",
      "abort_466", "abort_489", "abort_574" }

\* the assertion alloc.size == mem_event.size is missing
ScanStep_noSizeCheck(e, open, mlr, header) ==
    LET abort(site) == [ pc |-> site, allocs |-> << >>, managed_live_ranges |-> << >>,
                         live_range_node_header |-> << >> ]
        go(o, m, h) == [ pc |-> "pt_scan", allocs |-> o, managed_live_ranges |-> m,
                         live_range_node_header |-> h ]
    IN  IF e.type = "Allocate"
        THEN IF e.frame_node_id.has_value
             THEN go(UMapInsert(open, e.ptr_addr, e), mlr, header)
             ELSE IF e.time = 0 THEN go(open, mlr, header) ELSE abort("abort_426")
        ELSE IF ~HasKey(open, e.ptr_addr) THEN abort("abort_429")
        ELSE LET alloc == open[e.ptr_addr]
                 lvr == LiveRange(alloc.time, e.time)
             IN  IF ~(alloc.time < e.time) THEN abort("abort_441")
                 ELSE go(UMapErase(open, e.ptr_addr),
                         UMapInsert(mlr, lvr, alloc.size),
                         Append(header, << lvr, alloc.frame_node_id.node >>))

\* one iteration of the loop over mem_events; a failed assertion throws and the
\* locals of the function are gone
ScanStep(e, open, mlr, header) ==
    LET abort(site) == [ pc |-> site, allocs |-> << >>, managed_live_ranges |-> << >>,
                         live_range_node_header |-> << >> ]
        go(o, m, h) == [ pc |-> "pt_scan", allocs |-> o, managed_live_ranges |-> m,
                         live_range_node_header |-> h ]
    IN  IF e.type = "Allocate"
        THEN IF e.frame_node_id.has_value
             THEN go(UMapInsert(open, e.ptr_addr, e), mlr, header)
             ELSE IF e.time = 0 THEN go(open, mlr, header) ELSE abort("abort_426")
        ELSE IF ~HasKey(open, e.ptr_addr) THEN abort("abort_429")
        ELSE LET alloc == open[e.ptr_addr]
                 lvr == LiveRange(alloc.time, e.time)
             IN  IF alloc.size # e.size THEN abort("abort_439")
                 ELSE IF ~(alloc.time < e.time) THEN abort("abort_441")
                 ELSE go(UMapErase(open, e.ptr_addr),
                         UMapInsert(mlr, lvr, alloc.size),
                         Append(header, << lvr, alloc.frame_node_id.node >>))

\* only the first output of the node is looked at
ResidualsAreOutputs_firstOnly(g, open) ==
    \A k \in DOMAIN open :
        LET node == g.nodes[open[k].frame_node_id.node]
        IN  Len(node.outputs) > 0 => node.outputs[1] \in g.outputs

\* after the loop: every output of the node of a still open Allocate must be a
\* graph output (a node without outputs passes)
ResidualsAreOutputs(g, open) ==
    \A k \in DOMAIN open :
        LET node == g.nodes[open[k].frame_node_id.node]
        IN  Len(node.outputs) > 0 =>
                \A i \in 1..Len(node.outputs) : node.outputs[i] \in g.outputs

\* insertion of lvr into a vector kept sorted by live_range_start_cmp
RECURSIVE InsertRange(_, _, _)
InsertRange(sorted, lvr, i) ==
    IF i > Len(sorted) THEN Append(sorted, lvr)
    ELSE IF live_range_start_cmp(lvr, sorted[i])
         THEN SubSeq(sorted, 1, i - 1) \o << lvr >> \o SubSeq(sorted, i, Len(sorted))
         ELSE InsertRange(sorted, lvr, i + 1)

\* the live ranges recorded for frame f, sorted
RECURSIVE RangesOfFrame(_, _, _, _)
RangesOfFrame(header, f, i, acc) ==
    IF i > Len(header) THEN acc
    ELSE RangesOfFrame(header, f, i + 1,
                       IF header[i][2] = f THEN InsertRange(acc, header[i][1], 1) ELSE acc)

\* (frame, sorted live ranges) pairs, sorted by the pc of the frame
collectLiveRangesPerNode(header) ==
    LET frames == { header[i][2] : i \in 1..Len(header) }
        order == SortedByRank(frames, [ f \in frames |-> f ])
    IN  [ i \in 1..Len(order) |->
              [ frame |-> order[i], lvrs |-> RangesOfFrame(header, order[i], 1, << >>) ] ]

RECURSIVE PreAllocsOfFrame(_, _, _, _)
PreAllocsOfFrame(amap, item, j, acc) ==
    IF j > Len(item.lvrs) THEN acc
    ELSE LET region == RegionOf(amap, item.lvrs[j])
         IN  PreAllocsOfFrame(amap, item, j + 1,
                 Append(acc, [ kind |-> "PreAllocateTensor", before |-> item.frame,
                               lvr |-> item.lvrs[j],
                               size |-> region.size, offset |-> region.offset ]))

\* the PreAllocateTensor nodes, one per recorded live range
RECURSIVE insertPreAllocTensorNodes(_, _, _, _)
insertPreAllocTensorNodes(amap, collected, i, acc) ==
    IF i > Len(collected) THEN acc
    ELSE insertPreAllocTensorNodes(amap, collected, i + 1,
                                   PreAllocsOfFrame(amap, collected[i], 1, acc))

insertCollectAllocatedTensorsNode(g, alloc_nodes) ==
    [ g EXCEPT !.inserted =
          (@ \o alloc_nodes) \o
              << [ kind |-> "Constant", before |-> 0, n_inputs |-> Len(alloc_nodes) ] >> ]

----------------------------------------------------------------------------
(* planMemoryWithTracing *)

EventKeys == { "a", "b" }

\* node 1 has two outputs, node 2 has none
TraceNodes ==
    << [ has_out_variant |-> TRUE, outputs |-> << 1, 2 >>, added_inputs |-> 0 ],
       [ has_out_variant |-> TRUE, outputs |-> << >>, added_inputs |-> 0 ] >>

Frames == [ has_value : {TRUE}, node : 1..Len(TraceNodes) ]

MemEvents ==
    [ time : 0..MaxTime, ptr_addr : EventKeys, size : InputSizes,
      type : {"Allocate"}, frame_node_id : Frames \cup {NoFrame} ]
    \cup
    [ time : 0..MaxTime, ptr_addr : EventKeys, size : InputSizes,
      type : {"Free"}, frame_node_id : {NoFrame} ]

InitTrace ==
    /\ pc = "pt_entry"
    /\ strat = "NAIVE"
    /\ graph \in [ nodes : {TraceNodes}, outputs : SUBSET {1, 2}, inserted : {<< >>} ]
    /\ liveness = NoLiveness
    /\ out_nodes = << >>
    /\ managed_value_sizes = << >>
    /\ managed_value_ranges = << >>
    /\ managed_live_ranges = << >>
    /\ allocations = << >>
    /\ valid = "none"
    /\ total_size = 0
    /\ allocs = << >>
    /\ live_range_node_header = << >>
    /\ paired_sizes = << >>
    /\ mem_event = NoEvent
    /\ n_events = 0
    /\ intersect_in = NoIntervals
    /\ intersect_out = 0

\* TORCH_INTERNAL_ASSERT(!mem_events.empty())
PlanTracingEnter ==
    /\ pc = "pt_entry"
    /\ \E empty \in BOOLEAN : pc' = IF empty THEN "abort_489" ELSE "pt_scan"
    /\ UNCHANGED << strat, graph, liveness, managed_live_ranges, allocations, valid,
                    total_size, static_vars, trace_vars, geom_vars >>

\* the next event of a chronological trace of at most `max` events drawn from
\* `events` goes through the loop body
TraceScanEventOf(events, max) ==
    /\ pc = "pt_scan"
    /\ n_events < max
    /\ \E e \in events :
           /\ e.time >= mem_event.time
           /\ LET r == ScanStep(e, allocs, managed_live_ranges, live_range_node_header)
              IN  /\ pc' = r.pc
                  /\ allocs' = r.allocs
                  /\ managed_live_ranges' = r.managed_live_ranges
                  /\ live_range_node_header' = r.live_range_node_header
                  /\ paired_sizes' =
                         IF r.pc \in AbortSites THEN << >>
                         ELSE IF Len(r.live_range_node_header) > Len(live_range_node_header)
                         THEN Append(paired_sizes, allocs[e.ptr_addr].size)
                         ELSE paired_sizes
           /\ mem_event' = e
    /\ n_events' = n_events + 1
    /\ UNCHANGED << strat, graph, liveness, allocations, valid, total_size,
                    static_vars, geom_vars >>

TraceScanEvent == TraceScanEventOf(MemEvents, MaxEvents)

\* the trace is exhausted: the check of the Allocates still open, then the
\* return of the live ranges (the loop variable and the open map end here)
TraceScanEnd ==
    /\ pc = "pt_scan"
    /\ n_events > 0
    /\ IF ResidualsAreOutputs(graph, allocs)
       THEN /\ pc' = "pt_dispatch"
            /\ UNCHANGED << managed_live_ranges, live_range_node_header, paired_sizes >>
       ELSE /\ pc' = "abort_466"
            /\ managed_live_ranges' = << >>
            /\ live_range_node_header' = << >>
            /\ paired_sizes' = << >>
    /\ allocs' = << >>
    /\ mem_event' = NoEvent
    /\ n_events' = 0
    /\ UNCHANGED << strat, graph, liveness, allocations, valid, total_size,
                    static_vars, geom_vars >>

\* the switch on the strategy; an unhandled strategy returns
PlanTracingDispatch ==
    /\ pc = "pt_dispatch"
    /\ \E s \in StrategyArgs :
           /\ strat' = s
           /\ IF TracingHandles(s)
              THEN /\ \E it \in Orderings(Keys(managed_live_ranges)) :
                          allocations' = RunStrategy(s, Items(managed_live_ranges, it),
                                                     << >>, << >>, << >>)
                   /\ pc' = "pt_insert"
              ELSE /\ allocations' = allocations
                   /\ pc' = "pt_returned"
    /\ UNCHANGED << graph, liveness, managed_live_ranges, valid, total_size,
                    static_vars, trace_vars, geom_vars >>

\* the storage node, the PreAllocateTensor nodes and the collect node
PlanTracingInsert ==
    /\ pc = "pt_insert"
    /\ total_size' = getTotalAllocationSize(allocations)
    /\ LET g1 == insertAllocStorageNode(graph, total_size')
           collected == collectLiveRangesPerNode(live_range_node_header)
           nodes == insertPreAllocTensorNodes(AllocationsMap(allocations, 1, << >>),
                                              collected, 1, << >>)
       IN  graph' = insertCollectAllocatedTensorsNode(g1, nodes)
    /\ pc' = "pt_done"
    /\ UNCHANGED << strat, liveness, managed_live_ranges, allocations, valid,
                    static_vars, trace_vars, geom_vars >>

----------------------------------------------------------------------------
(* The planner: either entry point on a graph *)

Init == InitStatic \/ InitTrace

Next ==
    \/ PlanMemoryEnter
    \/ PlanMemoryDispatch
    \/ PlanMemoryValidate
    \/ PlanMemoryInsert
    \/ PlanTracingEnter
    \/ TraceScanEvent
    \/ TraceScanEnd
    \/ PlanTracingDispatch
    \/ PlanTracingInsert

Spec == Init /\ [][Next]_vars

----------------------------------------------------------------------------
(* planMemoryWithTracing on traces long enough for two paired allocations   *)

\* number of events of a trace
MaxReplayEvents == 4

\* every Allocate with a frame comes from node 1
ReplayEvents ==
    [ time : 0..MaxTime, ptr_addr : EventKeys, size : InputSizes,
      type : {"Allocate"}, frame_node_id : { [ has_value |-> TRUE, node |-> 1 ], NoFrame } ]
    \cup
    [ time : 0..MaxTime, ptr_addr : EventKeys, size : InputSizes,
      type : {"Free"}, frame_node_id : {NoFrame} ]

InitReplay ==
    /\ pc = "pt_entry"
    /\ strat = "NAIVE"
    /\ graph \in [ nodes : {TraceNodes}, outputs : { {}, {1, 2} }, inserted : {<< >>} ]
    /\ liveness = NoLiveness
    /\ out_nodes = << >>
    /\ managed_value_sizes = << >>
    /\ managed_value_ranges = << >>
    /\ managed_live_ranges = << >>
    /\ allocations = << >>
    /\ valid = "none"
    /\ total_size = 0
    /\ allocs = << >>
    /\ live_range_node_header = << >>
    /\ paired_sizes = << >>
    /\ mem_event = NoEvent
    /\ n_events = 0
    /\ intersect_in = NoIntervals
    /\ intersect_out = 0

ReplayScanEvent == TraceScanEventOf(ReplayEvents, MaxReplayEvents)

NextReplay ==
    \/ PlanTracingEnter
    \/ ReplayScanEvent
    \/ TraceScanEnd
    \/ PlanTracingDispatch
    \/ PlanTracingInsert

SpecReplay == InitReplay /\ [][NextReplay]_vars

----------------------------------------------------------------------------
(* getManagedStuff applied to graphs whose nodes may lack an out variant    *)
(* and whose values may be always alive or have no usable size              *)

\* node 1 has two outputs, node 2 has one
LivenessNodes ==
    { << [ has_out_variant |-> h1, outputs |-> << 1, 2 >>, added_inputs |-> 0 ],
         [ has_out_variant |-> h2, outputs |-> << 3 >>, added_inputs |-> 0 ] >> :
          h1 \in BOOLEAN, h2 \in BOOLEAN }

LivenessValues == { 1, 2, 3 }

\* computeStorageSize: nullopt, zero bytes or a positive number of bytes
StorageSizes ==
    { [ has_value |-> FALSE, value |-> 0 ], [ has_value |-> TRUE, value |-> 0 ],
      [ has_value |-> TRUE, value |-> 40 ] }

InitLiveness ==
    /\ pc = "gs_entry"
    /\ strat = "NAIVE"
    /\ graph \in [ nodes : LivenessNodes, outputs : {{}}, inserted : {<< >>} ]
    /\ liveness \in [ always_alive : SUBSET LivenessValues,
                      live_ranges : UNION { [S -> {LiveRange(0, 1)}] :
                                                S \in SUBSET LivenessValues },
                      storage_size : [LivenessValues -> StorageSizes] ]
    /\ out_nodes = << >>
    /\ managed_value_sizes = << >>
    /\ managed_value_ranges = << >>
    /\ managed_live_ranges = << >>
    /\ allocations = << >>
    /\ valid = "none"
    /\ total_size = 0
    /\ allocs = << >>
    /\ live_range_node_header = << >>
    /\ paired_sizes = << >>
    /\ mem_event = NoEvent
    /\ n_events = 0
    /\ intersect_in = NoIntervals
    /\ intersect_out = 0

GetManagedStuffCall ==
    /\ pc = "gs_entry"
    /\ LET stuff == getManagedStuff(graph, liveness)
       IN  /\ out_nodes' = stuff.out_nodes
           /\ managed_value_sizes' = stuff.managed_tensor_values
           /\ managed_value_ranges' = stuff.managed_ranges
    /\ pc' = "gs_done"
    /\ UNCHANGED << strat, graph, liveness, managed_live_ranges, allocations,
                    valid, total_size, trace_vars, geom_vars >>

NextLiveness == GetManagedStuffCall

SpecLiveness == InitLiveness /\ [][NextLiveness]_vars

----------------------------------------------------------------------------
(* intersectArea applied to intervals anywhere in the signed range          *)

\* endpoints near zero and near both ends of the range
Endpoints == { INT_MIN, INT_MIN + 1, 0 - 1, 0, 1, 2, INT_MAX - 1, INT_MAX }

Intervals ==
    { q \in [ a : Endpoints, b : Endpoints, c : Endpoints, d : Endpoints ] :
          q.a <= q.b /\ q.c <= q.d }

\* the exact value of x - y is not an int64_t
SubOverflows(x, y) == x - y > INT_MAX \/ x - y < INT_MIN

\* one of the three subtractions that intersectArea performs without a
\* check overflows: the behaviour of the call is undefined
UncheckedOverflow(a, b, c, d) ==
    \/ SubOverflows(Max(b, d), Min(a, c))
    \/ SubOverflows(b, a)
    \/ SubOverflows(d, c)

\* the values a call can return: that of the code where its arithmetic is
\* defined, any of the three (the wrapped result among them) where it is not
intersectAreaOutcomes(a, b, c, d) ==
    IF UncheckedOverflow(a, b, c, d)
    THEN { 0 - 1, 0, 1 } \cup { intersectArea(a, b, c, d) }
    ELSE { intersectArea(a, b, c, d) }

InitIntersect ==
    /\ pc = "ia_entry"
    /\ strat = "NAIVE"
    /\ graph = EmptyGraph
    /\ liveness = NoLiveness
    /\ out_nodes = << >>
    /\ managed_value_sizes = << >>
    /\ managed_value_ranges = << >>
    /\ managed_live_ranges = << >>
    /\ allocations = << >>
    /\ valid = "none"
    /\ total_size = 0
    /\ allocs = << >>
    /\ live_range_node_header = << >>
    /\ paired_sizes = << >>
    /\ mem_event = NoEvent
    /\ n_events = 0
    /\ intersect_in \in Intervals
    /\ intersect_out = 0

IntersectAreaCall ==
    /\ pc = "ia_entry"
    /\ intersect_out' \in intersectAreaOutcomes(intersect_in.a, intersect_in.b,
                                                intersect_in.c, intersect_in.d)
    /\ pc' = "ia_done"
    /\ UNCHANGED << strat, graph, liveness, managed_live_ranges, allocations, valid,
                    total_size, static_vars, trace_vars, intersect_in >>

NextIntersect == IntersectAreaCall

SpecIntersect == InitIntersect /\ [][NextIntersect]_vars

----------------------------------------------------------------------------
(* Reference notions of the data model, stated without the code's          *)
(* arithmetic                                                               *)

\* the closed intervals [begin, end] have a common time point
ShareTimePoint(l1, l2) == Max(l1.begin, l2.begin) <= Min(l1.end, l2.end)

\* the closed intervals have exactly one common time point, an endpoint of each
TouchInTime(l1, l2) ==
    /\ l1.begin < l1.end
    /\ l2.begin < l2.end
    /\ (l1.end = l2.begin \/ l2.end = l1.begin)

\* [offset, offset + size] of the two regions have more than one common point
OverlapInSpace(r1, r2) ==
    Max(r1.offset, r2.offset) < Min(r1.offset + r1.size, r2.offset + r2.size)

\* some two different allocations conflict in time and in space
HasConflict(allocs_) ==
    \E i, j \in 1..Len(allocs_) :
        /\ allocs_[i] # allocs_[j]
        /\ ShareTimePoint(allocs_[i].lvr, allocs_[j].lvr)
        /\ OverlapInSpace(allocs_[i].reg, allocs_[j].reg)

RECURSIVE SumAlignedOver(_, _)
SumAlignedOver(m, S) ==
    IF S = {} THEN 0
    ELSE LET k == CHOOSE x \in S : TRUE
         IN  computeAlignedTensorSize(m[k]) + SumAlignedOver(m, S \ {k})

SumAligned(m) == SumAlignedOver(m, DOMAIN m)

RECURSIVE SumRegionSizes(_, _)
SumRegionSizes(allocs_, n) ==
    IF n = 0 THEN 0 ELSE allocs_[n].reg.size + SumRegionSizes(allocs_, n - 1)

----------------------------------------------------------------------------
(* Claims *)

\* C1: validateAllocations returns false for every allocation set holding two
\* distinct allocations whose live ranges share a time point and whose regions
\* overlap by more than a point, and true for every set holding no such pair.
C1_ValidateDetectsConflicts ==
    pc = "validate_done" => (valid = "true" <=> ~HasConflict(allocations))

\* C2: the allocation set NAIVE returns passes validateAllocations, and no two
\* of its allocations whose live ranges share a time point occupy regions that
\* overlap by more than a single point.
C2_NaiveIsValid ==
    pc = "naive_done" =>
        /\ valid = "true"
        /\ \A i, j \in 1..Len(allocations) :
               (i # j /\ ShareTimePoint(allocations[i].lvr, allocations[j].lvr))
                   => ~OverlapInSpace(allocations[i].reg, allocations[j].reg)

C2_Witness ==
    /\ pc = "naive_done"
    /\ \E i, j \in 1..Len(allocations) :
           /\ i # j
           /\ ShareTimePoint(allocations[i].lvr, allocations[j].lvr)
           /\ allocations[i].lvr.end > allocations[j].lvr.begin
           /\ allocations[j].lvr.end > allocations[i].lvr.begin

\* C3: NAIVE assigns offsets as prefix sums of the aligned sizes taken in
\* ascending order of live-range begin (the first offset is 0), and total_size
\* is the sum of the aligned sizes of all input items.
C3_NaivePrefixSums ==
    pc = "naive_done" =>
        /\ \A i, j \in 1..Len(allocations) :
               i < j => allocations[i].lvr.begin <= allocations[j].lvr.begin
        /\ \A i \in 1..Len(allocations) :
               /\ HasKey(managed_live_ranges, allocations[i].lvr)
               /\ allocations[i].reg.size =
                      computeAlignedTensorSize(At(managed_live_ranges, allocations[i].lvr))
               /\ allocations[i].reg.offset = SumRegionSizes(allocations, i - 1)
        /\ total_size = SumAligned(managed_live_ranges)

C3_Witness ==
    /\ pc = "naive_done"
    /\ Len(allocations) = 3
    /\ allocations[1].reg.size # allocations[2].reg.size
    /\ allocations[3].reg.offset = allocations[1].reg.size + allocations[2].reg.size
    /\ total_size = SumAligned(managed_live_ranges)

\* C4: NAIVE returns exactly one allocation for every live range of its input
\* map and none for any other range, also when several input ranges have the
\* same begin and different ends.
C4_NaiveCoversInput ==
    pc = "naive_done" =>
        /\ \A k \in Keys(managed_live_ranges) :
               Cardinality({ i \in 1..Len(allocations) : allocations[i].lvr = k }) = 1
        /\ \A i \in 1..Len(allocations) :
               allocations[i].lvr \in Keys(managed_live_ranges)

C4_Witness ==
    /\ pc = "naive_done"
    /\ \E k1, k2 \in Keys(managed_live_ranges) :
           /\ k1.begin = k2.begin
           /\ k1.end # k2.end
    /\ Len(allocations) = Cardinality(Keys(managed_live_ranges))

GraphUntouched ==
    /\ graph.inserted = << >>
    /\ \A n \in 1..Len(graph.nodes) : graph.nodes[n].added_inputs = 0

\* the AllocateTensor nodes of the graph that bind value v
TensorNodesOf(v) ==
    { i \in 1..Len(graph.inserted) :
          graph.inserted[i].kind = "AllocateTensor" /\ graph.inserted[i].value = v }

\* C5: after planMemory completes with a supported strategy, every managed
\* value is bound to exactly one arena region whose size is that value's own
\* aligned size, also when two managed values have identical live ranges.
\* (Stated for the graphs whose managed values all have a live range.)
C5_EveryValueBound ==
    (pc = "pm_done" /\ DOMAIN managed_value_sizes \subseteq DOMAIN liveness.live_ranges) =>
        \A v \in DOMAIN managed_value_sizes :
            /\ Cardinality(TensorNodesOf(v)) = 1
            /\ \A i \in TensorNodesOf(v) :
                   graph.inserted[i].size = computeAlignedTensorSize(managed_value_sizes[v])

\* C6: on both entry points no storage or tensor-allocation node is inserted
\* unless validateAllocations has run on the allocation set and returned true;
\* a failed validation aborts with the graph unmodified.
C6_InsertOnlyAfterValidation ==
    /\ ~GraphUntouched => valid = "true"
    /\ valid = "false" => (pc = "abort_574" /\ GraphUntouched)

\* C7: with a strategy the entry point does not handle (outside the six for
\* planMemory; other than NAIVE, LINEAR_SCAN, GREEDY_BY_SIZE for
\* planMemoryWithTracing) the call returns with an empty plan and the graph
\* unchanged.
C7_UnhandledStrategyIsNoOp ==
    /\ (/\ pc \in { "pm_validate", "pm_insert", "pm_done", "pm_returned",
                    "abort_574", "abort_197" }
        /\ strat \notin Strategies)
           => (pc = "pm_returned" /\ allocations = << >> /\ GraphUntouched)
    /\ (/\ pc \in { "pt_insert", "pt_done", "pt_returned" }
        /\ strat \notin { "NAIVE", "LINEAR_SCAN", "GREEDY_BY_SIZE" })
           => (pc = "pt_returned" /\ allocations = << >> /\ GraphUntouched)

C7_Witness ==
    /\ pc = "pt_returned"
    /\ strat = "GREEDY_BY_BREADTH"
    /\ Keys(managed_live_ranges) # {}
    /\ GraphUntouched

\* the event breaks the contract of the trace, given the Allocates still open
BadEvent(e, open) ==
    \/ e.type = "Free" /\ e.ptr_addr \notin DOMAIN open
    \/ e.type = "Free" /\ e.ptr_addr \in DOMAIN open /\ open[e.ptr_addr].size # e.size
    \/ e.type = "Free" /\ e.ptr_addr \in DOMAIN open /\ ~(open[e.ptr_addr].time < e.time)
    \/ e.type = "Allocate" /\ ~e.frame_node_id.has_value /\ e.time # 0

\* C8: the replay aborts, with no live ranges and no plan, on a Free whose
\* pointer key has no open Allocate, a Free whose size differs from its open
\* Allocate's, a Free not strictly later than its Allocate, and an Allocate
\* without frame node id at a non-zero time.
C8_BadEventAborts ==
    [][ (pc = "pt_scan" /\ n_events' = n_events + 1 /\ BadEvent(mem_event', allocs))
            => /\ pc' \in AbortSites
               /\ managed_live_ranges' = << >>
               /\ live_range_node_header' = << >>
               /\ allocations' = << >>
               /\ graph' = graph ]_vars

C8_Witness ==
    /\ pc = "abort_439"
    /\ mem_event.type = "Free"
    /\ n_events = 3
    /\ managed_live_ranges = << >>
    /\ GraphUntouched

\* C9: after the scan a still open Allocate is tolerated only if every output
\* of its node is a graph output; any other open Allocate aborts.
C9_ResidualOnlyIfOutputs ==
    [][ (pc = "pt_scan" /\ pc' \in { "pt_dispatch", "abort_466" })
            => (pc' = "abort_466" <=>
                   \E k \in DOMAIN allocs :
                       \E o \in NodeOutputs(graph.nodes[allocs[k].frame_node_id.node]) :
                           o \notin graph.outputs) ]_vars

C9_Witness ==
    /\ pc = "abort_466"
    /\ graph.outputs = {}
    /\ allocations = << >>

\* the outputs of the nodes that have an out variant
OutVariantOutputs(g) ==
    UNION { NodeOutputs(g.nodes[n]) : n \in { m \in 1..Len(g.nodes) : g.nodes[m].has_out_variant } }

\* C11: the extractor manages a value if and only if it is an output of a
\* node with an out variant, is not always alive and has a known, strictly
\* positive storage size; every managed value has its size, which is > 0;
\* every other output of an out-variant node is unmanaged (recorded as leaked
\* unless it was skipped as always alive) and the extraction does not abort.
C11_ManagedIffSizedOutput ==
    pc = "gs_done" =>
        /\ \A v \in LivenessValues :
               v \in DOMAIN managed_value_sizes <=>
                   /\ v \in OutVariantOutputs(graph)
                   /\ v \notin liveness.always_alive
                   /\ liveness.storage_size[v].has_value
                   /\ liveness.storage_size[v].value > 0
        /\ \A v \in DOMAIN managed_value_sizes :
               /\ managed_value_sizes[v] > 0
               /\ managed_value_sizes[v] = liveness.storage_size[v].value
        /\ \A v \in OutVariantOutputs(graph) \ DOMAIN managed_value_sizes :
               \/ v \in liveness.always_alive
               \/ v \in getManagedValues(graph, liveness).leaked_values
        /\ getManagedValues(graph, liveness).leaked_values
               \cap DOMAIN managed_value_sizes = {}
        /\ pc \notin AbortSites

\* value 1 is managed, value 2 has size zero and is leaked, node 2 has no
\* out variant although its output has a positive size
C11_Witness ==
    /\ pc = "gs_done"
    /\ DOMAIN managed_value_sizes = {1}
    /\ liveness.always_alive = {}
    /\ liveness.storage_size[2] = [ has_value |-> TRUE, value |-> 0 ]
    /\ 2 \in getManagedValues(graph, liveness).leaked_values
    /\ liveness.storage_size[3].value > 0
    /\ ~graph.nodes[2].has_out_variant

\* exact values of the quantities intersectArea computes
ExactOuter(q) == Max(q.b, q.d) - Min(q.a, q.c)
ExactL(q) == (q.b - q.a) + (q.d - q.c)
InInt64(x) == INT_MIN <= x /\ x <= INT_MAX

\* none of outer, b - a, d - c, L and outer - L overflows
NoOverflow(q) ==
    /\ InInt64(ExactOuter(q))
    /\ InInt64(q.b - q.a)
    /\ InInt64(q.d - q.c)
    /\ InInt64(ExactL(q))
    /\ InInt64(ExactOuter(q) - ExactL(q))

\* C12: for intervals whose arithmetic does not overflow, intersectArea
\* returns +1 exactly when outer > L, 0 exactly when outer == L and -1
\* exactly when outer < L.
C12_ThreeValuedIntersect ==
    (pc = "ia_done" /\ NoOverflow(intersect_in)) =>
        /\ intersect_out = 1 <=> ExactOuter(intersect_in) > ExactL(intersect_in)
        /\ intersect_out = 0 <=> ExactOuter(intersect_in) = ExactL(intersect_in)
        /\ intersect_out = 0 - 1 <=> ExactOuter(intersect_in) < ExactL(intersect_in)

\* C13: anywhere in the signed range intersectArea never returns +1 for two
\* intervals that share a point, and returns -1 whenever one of outer,
\* b - a, d - c, L and outer - L overflows.
C13_OverflowIsOverlap ==
    pc = "ia_done" =>
        /\ ShareTimePoint(LiveRange(intersect_in.a, intersect_in.b),
                          LiveRange(intersect_in.c, intersect_in.d))
               => intersect_out # 1
        /\ ~NoOverflow(intersect_in) => intersect_out = 0 - 1

\* C14: a Free event that passes the assertions emits the live range
\* [alloc.time, free.time] with the size of its Allocate, appends one
\* (range, frame) entry to the companion list and removes the key from the
\* open map; an Allocate without a frame at time 0 emits nothing.
C14_FreeEmitsOneRange ==
    [][ (pc = "pt_scan" /\ n_events' = n_events + 1 /\ pc' = "pt_scan") =>
            IF mem_event'.type = "Free"
            THEN LET alloc == allocs[mem_event'.ptr_addr]
                     lvr == LiveRange(alloc.time, mem_event'.time)
                 IN  /\ DOMAIN managed_live_ranges' = DOMAIN managed_live_ranges \cup {lvr}
                     /\ managed_live_ranges'[lvr] = alloc.size
                     /\ \A k \in DOMAIN managed_live_ranges \ {lvr} :
                            managed_live_ranges'[k] = managed_live_ranges[k]
                     /\ live_range_node_header' =
                            Append(live_range_node_header,
                                   << lvr, alloc.frame_node_id.node >>)
                     /\ allocs' = UMapErase(allocs, mem_event'.ptr_addr)
            ELSE ~mem_event'.frame_node_id.has_value =>
                     /\ managed_live_ranges' = managed_live_ranges
                     /\ live_range_node_header' = live_range_node_header
                     /\ allocs' = allocs ]_vars

\* the PreAllocateTensor nodes inserted for entry i of the companion list
PreAllocNodesOf(i) ==
    { graph.inserted[n] : n \in
          { m \in 1..Len(graph.inserted) :
                /\ graph.inserted[m].kind = "PreAllocateTensor"
                /\ graph.inserted[m].before = live_range_node_header[i][2]
                /\ graph.inserted[m].lvr = live_range_node_header[i][1] } }

\* C16: after planMemoryWithTracing with a supported strategy every paired
\* allocation has a PreAllocateTensor node whose region is at least as large
\* as its own aligned size, and two paired allocations whose lifetimes share
\* a time point have regions with at most a single point in common.
C16_TraceRegionsDisjoint ==
    pc = "pt_done" =>
        /\ \A i \in 1..Len(live_range_node_header) :
               /\ PreAllocNodesOf(i) # {}
               /\ \A n \in PreAllocNodesOf(i) :
                      n.size >= computeAlignedTensorSize(paired_sizes[i])
        /\ \A i, j \in 1..Len(live_range_node_header) :
               (i < j /\ ShareTimePoint(live_range_node_header[i][1],
                                        live_range_node_header[j][1]))
                   => \A n1 \in PreAllocNodesOf(i), n2 \in PreAllocNodesOf(j) :
                          ~OverlapInSpace(MemRegion(n1.offset, n1.size),
                                          MemRegion(n2.offset, n2.size))

\* positions of planMemory that are reached only after a strategy has run
AfterStrategy == { "pm_validate", "pm_insert", "pm_done", "abort_574", "abort_197" }

\* C15: a managed value without a live range in the result of the liveness
\* pass aborts planMemory before any strategy runs: once a strategy has run,
\* every managed value has the live range the liveness pass gave it.
C15_MissingRangeAborts ==
    pc \in AfterStrategy =>
        \A v \in DOMAIN managed_value_sizes :
            /\ v \in DOMAIN liveness.live_ranges
            /\ managed_value_ranges[v] = liveness.live_ranges[v]

====
